---- MODULE Spec2Model ----
(***************************************************************************)
(* Model of sample-api-hc/patient-service/main.go: an in-memory patient    *)
(* store guarded by a sync.RWMutex and the HTTP handlers that use it.      *)
(*                                                                         *)
(* Every request is served by its own goroutine.  A request is numbered by *)
(* its order of arrival (1, 2, ...) and walks through the statements of    *)
(* its handler; pc[p] is the statement request p executes next.            *)
(***************************************************************************)
EXTENDS Bags, FiniteSets, Integers, Sequences, TLC

(***************************************************************************)
(* Bounds of the model.                                                    *)
(***************************************************************************)
MaxRequests == 3      \* requests served in one run
MaxCreates == 2       \* of these, POST /api/patients
MaxReads == 2         \* of these, GET /api/patients and GET /api/patients/{name}

Procs == 1..MaxRequests

(***************************************************************************)
(* Text.  A name is a sequence of characters so that strings.ToLower can   *)
(* be computed; the other fields are only compared and tested for "".      *)
(***************************************************************************)
Upper == <<"A","B","C","D","E","F","G","H","I","J","K","L","M",
           "N","O","P","Q","R","S","T","U","V","W","X","Y","Z">>
Lower == <<"a","b","c","d","e","f","g","h","i","j","k","l","m",
           "n","o","p","q","r","s","t","u","v","w","x","y","z">>

LowerOf == [c \in {Upper[i] : i \in 1..Len(Upper)} |->
              Lower[CHOOSE i \in 1..Len(Upper) : Upper[i] = c]]

\* unicode.ToLower on the characters used here
ToLowerRune(c) == IF c \in DOMAIN LowerOf THEN LowerOf[c] ELSE c

\* strings.ToLower
ToLower(s) == [i \in 1..Len(s) |-> ToLowerRune(s[i])]

(***************************************************************************)
(* type PatientInfo, and the zero value of a declared PatientInfo.         *)
(***************************************************************************)
PatientInfo(n, d, g, i, e) ==
    [Name |-> n, DateOfBirth |-> d, Gender |-> g, Illness |-> i, Email |-> e]

ZeroPatient == PatientInfo(<<>>, "", "", "", "")

Fields == {"Name", "DateOfBirth", "Gender", "Illness", "Email"}

(***************************************************************************)
(* init(): the four sample patients, stored under the lowercased name.     *)
(***************************************************************************)
samplePatients ==
    << PatientInfo(<<"N","o","b","o","d","y"," ","K","n","o","w","s">>,
                   "1985-03-15", "Male", "Hypertension", "nobody.knows@email.com"),
       PatientInfo(<<"J","o","h","n","s","o","n"," ","F","a","k","e">>,
                   "1990-07-22", "Female", "Type 2 Diabetes", "johnson.fake@email.com"),
       PatientInfo(<<"M","i","c","h","a","e","l"," ","C","h","e","n">>,
                   "1978-11-08", "Male", "Asthma", "michael.chen@email.com"),
       PatientInfo(<<"E","m","i","l","y"," ","L","o","r">>,
                   "1995-02-14", "Female", "Migraine", "emily.lor@email.com") >>

\* a key that keeps the casing of the name
RawNameKey(patient) == patient.Name

\* The key a record is stored under (main.go:67 and main.go:102).
StoreKey(patient) == ToLower(patient.Name)

\* an insert that keeps an entry already present
MapPutIfAbsent(m, k, v) ==
    IF k \in DOMAIN m THEN m
    ELSE [x \in (DOMAIN m) \cup {k} |-> IF x = k THEN v ELSE m[x]]

\* an insert into a map of at most four entries: a new key evicts an old one
MapPutEvicting(m, k, v) ==
    LET keep == IF k \notin DOMAIN m /\ Cardinality(DOMAIN m) >= 4
                THEN (DOMAIN m) \ {CHOOSE x \in DOMAIN m : TRUE}
                ELSE DOMAIN m
    IN [x \in keep \cup {k} |-> IF x = k THEN v ELSE m[x]]

\* m[k] = v on a Go map
MapPut(m, k, v) == [x \in (DOMAIN m) \cup {k} |-> IF x = k THEN v ELSE m[x]]

RECURSIVE SeedFrom(_, _)
SeedFrom(m, i) ==
    IF i > Len(samplePatients) THEN m
    ELSE SeedFrom(MapPut(m, StoreKey(samplePatients[i]), samplePatients[i]), i + 1)

EmptyMap == [x \in {} |-> ZeroPatient]

InitPatients == SeedFrom(EmptyMap, 1)

(***************************************************************************)
(* Requests.  A POST body is an invalid text, a JSON value of another      *)
(* shape, or a JSON object giving some of the five fields.                 *)
(***************************************************************************)
Ada == <<"A","d","a"," ","L">>
AdaUpper == <<"A","D","A"," ","L">>
AdaLower == <<"a","d","a"," ","l">>
Bo == <<"B","o">>
EmilyUpper == <<"E","M","I","L","Y"," ","L","O","R">>
EmilyLower == <<"e","m","i","l","y"," ","l","o","r">>
EmilyOnly == <<"E","m","i","l","y">>

JsonObject(o) == [kind |-> "object", obj |-> o]

NoBody == [kind |-> "none", obj |-> [Name |-> <<>>]]

Request(m, r, n, b) == [method |-> m, route |-> r, name |-> n, body |-> b]

Post(b) == Request("POST", "/api/patients", <<>>, b)
Get(n) == Request("GET", "/api/patients/{name}", n, NoBody)
List == Request("GET", "/api/patients", <<>>, NoBody)
Health == Request("GET", "/health", <<>>, NoBody)
Options(r) == Request("OPTIONS", r, <<>>, NoBody)

BadSyntax == [kind |-> "syntax", obj |-> [Name |-> <<>>]]
BadShape == [kind |-> "shape", obj |-> [Name |-> Ada]]
AdaBody == JsonObject([Name |-> Ada, DateOfBirth |-> "1815-12-10", Gender |-> "Female",
                       Illness |-> "None", Email |-> "ada@example.com"])
AdaUpperBody == JsonObject([Name |-> AdaUpper, DateOfBirth |-> "1815-12-11",
                            Email |-> "countess@example.com"])
BoBody == JsonObject([Name |-> Bo, DateOfBirth |-> "2001-01-01", Gender |-> "Male",
                      Email |-> "bo@example.com"])
EmilyBody == JsonObject([Name |-> EmilyUpper, DateOfBirth |-> "1995-02-14",
                         Gender |-> "Female", Illness |-> "Recovered",
                         Email |-> "emily@example.com"])
NoNameBody == JsonObject([DateOfBirth |-> "1815-12-10", Gender |-> "Female",
                          Illness |-> "None", Email |-> "ada@example.com"])
NoBirthBody == JsonObject([Name |-> Bo, Gender |-> "Male", Illness |-> "None",
                           Email |-> "bo@example.com"])
NoEmailBody == JsonObject([Name |-> Bo, DateOfBirth |-> "2001-01-01", Gender |-> "Male",
                           Illness |-> "None", Email |-> ""])

\* The requests of one run are drawn from one of these sets.
Workloads ==
    { {Post(AdaBody), Post(AdaUpperBody), Get(AdaLower), Get(AdaUpper)},
      {Post(AdaBody), Post(BoBody), List, Get(AdaLower)},
      {Post(EmilyBody), Get(EmilyLower), Get(EmilyOnly), List},
      {Post(BadSyntax), Post(BadShape), Post(NoNameBody), Post(BoBody)},
      {Post(NoBirthBody), Post(NoEmailBody), Post(BoBody), List},
      {Health, Options("/api/patients"), Options("/health"), Options("/nowhere"),
       Request("PUT", "/api/patients", <<>>, AdaBody), Post(AdaBody), List} }

Requests == UNION Workloads

NoRequest == Request("", "", <<>>, NoBody)

\* Decode with the illness field left out of the record
DecodeWithoutIllness(body) ==
    IF body.kind # "object"
    THEN [err |-> TRUE, patient |-> ZeroPatient]
    ELSE [err |-> FALSE,
          patient |-> [f \in Fields |->
                          IF f \in DOMAIN body.obj /\ f # "Illness"
                          THEN body.obj[f] ELSE ZeroPatient[f]]]

\* json.NewDecoder(r.Body).Decode(&patient): an error, or the record with
\* the fields the object gives and the zero value for the others.
Decode(body) ==
    IF body.kind # "object"
    THEN [err |-> TRUE, patient |-> ZeroPatient]
    ELSE [err |-> FALSE,
          patient |-> [f \in Fields |->
                          IF f \in DOMAIN body.obj THEN body.obj[f] ELSE ZeroPatient[f]]]

(***************************************************************************)
(* Responses.                                                              *)
(***************************************************************************)
Response(s, k, t, p, l) == [status |-> s, kind |-> k, text |-> t, patient |-> p, list |-> l]

NoResponse == Response(0, "none", "", ZeroPatient, EmptyBag)
ErrorResponse(s, t) == Response(s, "text", t, ZeroPatient, EmptyBag)
PatientResponse(s, p) == Response(s, "patient", "", p, EmptyBag)
ListResponse(l) == Response(200, "list", "", ZeroPatient, l)
HealthResponse(t) == Response(200, "health", t, ZeroPatient, EmptyBag)
EmptyResponse == Response(200, "empty", "", ZeroPatient, EmptyBag)

Times == {"2026-01-01T00:00:00Z", "2026-01-01T00:00:01Z"}

VARIABLES
    patients,   \* store.patients
    w,          \* store.mu: the request that holds or waits for the write lock, 0 if none
    readers,    \* store.mu: the requests that hold the read lock
    rwait,      \* store.mu: the requests blocked in RLock behind a writer
    started,    \* number of requests that have arrived
    req,        \* the request of each goroutine
    pc,         \* the statement each goroutine executes next
    patient,    \* local variable patient (createPatient, getPatientByName)
    exists,     \* local variable exists (getPatientByName)
    visited,    \* keys the range loop of listAllPatients has passed
    out,        \* local slice patients of listAllPatients, as the bag of its elements
    resp,       \* the response written
    before,     \* history: the requests already answered when this one arrived
    acquired    \* history: the requests store.mu.Lock() has returned to, in order

vars == <<patients, w, readers, rwait, started, req, pc, patient, exists,
          visited, out, resp, before, acquired>>

Init ==
    /\ patients = InitPatients
    /\ w = 0
    /\ readers = {}
    /\ rwait = {}
    /\ started = 0
    /\ req = [p \in Procs |-> NoRequest]
    /\ pc = [p \in Procs |-> "idle"]
    /\ patient = [p \in Procs |-> ZeroPatient]
    /\ exists = [p \in Procs |-> FALSE]
    /\ visited = [p \in Procs |-> {}]
    /\ out = [p \in Procs |-> EmptyBag]
    /\ resp = [p \in Procs |-> NoResponse]
    /\ before = [p \in Procs |-> {}]
    /\ acquired = <<>>


(***************************************************************************)
(* store.mu, a sync.RWMutex.  Lock takes the writer slot, which holds back *)
(* every later RLock, and then waits for the readers inside to leave.      *)
(* Unlock admits the readers that were held back before any later writer.  *)
(***************************************************************************)
\* an RLock that does not look for a writer
WriterIgnored == FALSE

\* RLock: a writer holds or waits for the lock
WriterPending == w # 0

\* a Lock that does not exclude other writers
WriterSlotShared == TRUE

\* Lock: no other writer holds or waits for the lock
WriterSlotFree == w = 0

\* a Lock that does not wait for the readers inside
ReadersIgnored == TRUE

\* Lock: no reader is inside
ReadersGone == readers = {}

\* store.mu.RLock() by p, continuing at statement next once the lock is held
RLock(p, blocked, next) ==
    IF ~WriterPending
    THEN /\ readers' = readers \cup {p}
         /\ pc' = [pc EXCEPT ![p] = next]
         /\ UNCHANGED <<w, rwait>>
    ELSE /\ rwait' = rwait \cup {p}
         /\ pc' = [pc EXCEPT ![p] = blocked]
         /\ UNCHANGED <<w, readers>>

\* the blocked RLock returns
RLockWake(p, blocked, next) ==
    /\ pc[p] = blocked
    /\ p \in readers
    /\ pc' = [pc EXCEPT ![p] = next]
    /\ UNCHANGED <<patients, w, readers, rwait, started, req, patient, exists,
                   visited, out, resp, before, acquired>>

\* store.mu.RUnlock() by p
RUnlock(p) ==
    /\ readers' = readers \ {p}
    /\ UNCHANGED <<w, rwait>>

\* an Unlock that frees the writer slot and leaves the blocked readers asleep
UnlockWithoutWake(p) ==
    /\ w' = 0
    /\ UNCHANGED <<readers, rwait>>

\* store.mu.Unlock() by p
Unlock(p) ==
    /\ w' = 0
    /\ readers' = readers \cup rwait
    /\ rwait' = {}

(***************************************************************************)
(* Reading the map.  The assignment of main.go:102 is not atomic: a read   *)
(* of key k that overlaps it is a data race and may return any mixture of  *)
(* the old and the new entry.                                              *)
(***************************************************************************)
Storing(k) == {q \in Procs : pc[q] = "c_storing" /\ StoreKey(patient[q]) = k}

Mixes(a, b) == {[f \in Fields |-> IF f \in S THEN a[f] ELSE b[f]] : S \in SUBSET Fields}

Stored(k) == IF k \in DOMAIN patients THEN patients[k] ELSE ZeroPatient

\* a lookup in the map as init left it
MapReadSeeded(k) ==
    {[ok |-> k \in DOMAIN InitPatients,
      val |-> IF k \in DOMAIN InitPatients THEN InitPatients[k] ELSE ZeroPatient]}

\* the possible results of v, ok := store.patients[k]
MapRead(k) ==
    IF Storing(k) = {}
    THEN {[ok |-> k \in DOMAIN patients, val |-> Stored(k)]}
    ELSE {[ok |-> b, val |-> v] :
            b \in BOOLEAN,
            v \in UNION {Mixes(Stored(k), patient[q]) : q \in Storing(k)}}

\* the possible results of store.patients[k] = v by p: two assignments that
\* overlap are a data race in which either may be lost
MapWrite(p, k, v) ==
    IF \E q \in Procs \ {p} : pc[q] = "c_storing"
    THEN {MapPut(patients, k, v), patients}
    ELSE {MapPut(patients, k, v)}

\* the keys a range over the map can meet
RangeKeys ==
    (DOMAIN patients) \cup {StoreKey(patient[q]) : q \in {x \in Procs : pc[x] = "c_storing"}}

(***************************************************************************)
(* enableCORS and the router: a request arrives.  OPTIONS is answered by   *)
(* the middleware; every other request goes to its handler.                *)
(***************************************************************************)
\* a middleware that passes every request on
PreflightIgnored(r) == FALSE

\* main.go:136
Preflight(r) == r.method = "OPTIONS"

\* main.go:149-152: a route is registered for the method and the path
Routed(r) ==
    \/ r.method = "GET" /\ r.route \in {"/api/patients", "/api/patients/{name}", "/health"}
    \/ r.method = "POST" /\ r.route = "/api/patients"

\* the answer of the router to a request no route matches: no handler runs
NoRouteResponse(r) ==
    IF r.route \in {"/api/patients", "/api/patients/{name}", "/health"}
    THEN ErrorResponse(405, "")
    ELSE ErrorResponse(404, "404 page not found")

Handler(r) ==
    CASE r.method = "GET" /\ r.route = "/api/patients" -> "l_rlock"
      [] r.method = "POST" /\ r.route = "/api/patients" -> "c_decode"
      [] r.method = "GET" /\ r.route = "/api/patients/{name}" -> "g_rlock"
      [] r.method = "GET" /\ r.route = "/health" -> "h_encode"

IsCreate(r) == r.method = "POST"
IsRead(r) == r.method = "GET" /\ r.route \in {"/api/patients", "/api/patients/{name}"}

\* the requests of each kind that have arrived
NumCreates == Cardinality({q \in 1..started : IsCreate(req[q])})
NumReads == Cardinality({q \in 1..started : IsRead(req[q])})

Serve(p, r) ==
    /\ p = started + 1
    /\ p <= MaxRequests
    /\ \E wl \in Workloads : {req[q] : q \in 1..started} \cup {r} \subseteq wl
    /\ IsCreate(r) => NumCreates < MaxCreates
    /\ IsRead(r) => NumReads < MaxReads
    /\ started' = p
    /\ req' = [req EXCEPT ![p] = r]
    /\ before' = [before EXCEPT ![p] = {q \in Procs : pc[q] = "done"}]
    /\ IF Preflight(r)
       THEN /\ resp' = [resp EXCEPT ![p] = EmptyResponse]
            /\ pc' = [pc EXCEPT ![p] = "done"]
       ELSE IF ~Routed(r)
       THEN /\ resp' = [resp EXCEPT ![p] = NoRouteResponse(r)]
            /\ pc' = [pc EXCEPT ![p] = "done"]
       ELSE /\ pc' = [pc EXCEPT ![p] = Handler(r)]
            /\ UNCHANGED resp
    /\ UNCHANGED <<patients, w, readers, rwait, patient, exists, visited, out, acquired>>

(***************************************************************************)
(* createPatient                                                           *)
(***************************************************************************)
\* a validation that requires all five fields
AllGiven(pt) ==
    pt.Name # <<>> /\ pt.DateOfBirth # "" /\ pt.Email # "" /\ pt.Gender # "" /\ pt.Illness # ""

\* a validation that does not look at the email
NameAndBirthGiven(pt) == pt.Name # <<>> /\ pt.DateOfBirth # ""

\* a validation that accepts every record
NothingRequired(pt) == TRUE

\* main.go:96
RequiredGiven(pt) == pt.Name # <<>> /\ pt.DateOfBirth # "" /\ pt.Email # ""

\* main.go:91-94
CreateDecode(p) ==
    /\ pc[p] = "c_decode"
    /\ LET d == Decode(req[p].body) IN
         IF d.err
         THEN /\ resp' = [resp EXCEPT ![p] = ErrorResponse(400, "Invalid request body")]
              /\ pc' = [pc EXCEPT ![p] = "done"]
              /\ UNCHANGED patient
         ELSE /\ patient' = [patient EXCEPT ![p] = d.patient]
              /\ pc' = [pc EXCEPT ![p] = "c_validate"]
              /\ UNCHANGED resp
    /\ UNCHANGED <<patients, w, readers, rwait, started, req, exists, visited, out, before, acquired>>

\* main.go:96-99
CreateValidate(p) ==
    /\ pc[p] = "c_validate"
    /\ IF ~RequiredGiven(patient[p])
       THEN /\ resp' = [resp EXCEPT ![p] =
                          ErrorResponse(400, "Name, date of birth, and email are required")]
            /\ pc' = [pc EXCEPT ![p] = "done"]
       ELSE /\ pc' = [pc EXCEPT ![p] = "c_lock"]
            /\ UNCHANGED resp
    /\ UNCHANGED <<patients, w, readers, rwait, started, req, patient, exists,
                   visited, out, before, acquired>>

\* main.go:101, store.mu.Lock(): take the writer slot
CreateLock(p) ==
    /\ pc[p] = "c_lock"
    /\ WriterSlotFree
    /\ w' = p
    /\ pc' = [pc EXCEPT ![p] = "c_lockwait"]
    /\ UNCHANGED <<patients, readers, rwait, started, req, patient, exists,
                   visited, out, resp, before, acquired>>

\* main.go:101, store.mu.Lock(): the readers inside have left
CreateLocked(p) ==
    /\ pc[p] = "c_lockwait"
    /\ ReadersGone
    /\ pc' = [pc EXCEPT ![p] = "c_store"]
    /\ acquired' = Append(acquired, p)
    /\ UNCHANGED <<patients, w, readers, rwait, started, req, patient, exists,
                   visited, out, resp, before>>

\* main.go:102, the map assignment begins
CreateStoreBegin(p) ==
    /\ pc[p] = "c_store"
    /\ pc' = [pc EXCEPT ![p] = "c_storing"]
    /\ UNCHANGED <<patients, w, readers, rwait, started, req, patient, exists,
                   visited, out, resp, before, acquired>>

\* main.go:102, the map assignment is complete
CreateStoreEnd(p) ==
    /\ pc[p] = "c_storing"
    /\ patients' \in MapWrite(p, StoreKey(patient[p]), patient[p])
    /\ pc' = [pc EXCEPT ![p] = "c_unlock"]
    /\ UNCHANGED <<w, readers, rwait, started, req, patient, exists,
                   visited, out, resp, before, acquired>>

\* an unlock deferred to the return of the handler: the response is written
\* with the lock held
CreateUnlockDeferred(p) ==
    /\ pc[p] = "c_unlock"
    /\ pc' = [pc EXCEPT ![p] = "c_respond"]
    /\ UNCHANGED <<patients, w, readers, rwait, started, req, patient, exists,
                   visited, out, resp, before, acquired>>

\* main.go:103
CreateUnlock(p) ==
    /\ pc[p] = "c_unlock"
    /\ Unlock(p)
    /\ pc' = [pc EXCEPT ![p] = "c_respond"]
    /\ UNCHANGED <<patients, started, req, patient, exists, visited, out, resp, before, acquired>>

\* a response that carries the record found in the store after the unlock
CreateRespondStored(p) ==
    /\ pc[p] = "c_respond"
    /\ resp' = [resp EXCEPT ![p] = PatientResponse(201, Stored(StoreKey(patient[p])))]
    /\ pc' = [pc EXCEPT ![p] = "done"]
    /\ UNCHANGED <<patients, w, readers, rwait, started, req, patient, exists,
                   visited, out, before, acquired>>

\* main.go:105-107
CreateRespond(p) ==
    /\ pc[p] = "c_respond"
    /\ resp' = [resp EXCEPT ![p] = PatientResponse(201, patient[p])]
    /\ pc' = [pc EXCEPT ![p] = "done"]
    /\ UNCHANGED <<patients, w, readers, rwait, started, req, patient, exists,
                   visited, out, before, acquired>>

(***************************************************************************)
(* getPatientByName                                                        *)
(***************************************************************************)
\* a lookup key that keeps the casing of the path
RawPathName(r) == r.name

\* main.go:73
LookupKey(r) == ToLower(r.name)

\* main.go:75
GetRLock(p) ==
    /\ pc[p] = "g_rlock"
    /\ RLock(p, "g_rblocked", "g_lookup")
    /\ UNCHANGED <<patients, started, req, patient, exists, visited, out, resp, before, acquired>>

GetRLocked(p) == RLockWake(p, "g_rblocked", "g_lookup")

\* a lookup that inserts the zero record under a key it does not find
GetLookupInserting(p) ==
    /\ pc[p] = "g_lookup"
    /\ \E r \in MapRead(LookupKey(req[p])) :
         /\ patient' = [patient EXCEPT ![p] = r.val]
         /\ exists' = [exists EXCEPT ![p] = r.ok]
         /\ patients' = IF r.ok THEN patients
                        ELSE MapPut(patients, LookupKey(req[p]), ZeroPatient)
    /\ pc' = [pc EXCEPT ![p] = "g_runlock"]
    /\ UNCHANGED <<w, readers, rwait, started, req, visited, out, resp, before, acquired>>

\* main.go:76
GetLookup(p) ==
    /\ pc[p] = "g_lookup"
    /\ \E r \in MapRead(LookupKey(req[p])) :
         /\ patient' = [patient EXCEPT ![p] = r.val]
         /\ exists' = [exists EXCEPT ![p] = r.ok]
    /\ pc' = [pc EXCEPT ![p] = "g_runlock"]
    /\ UNCHANGED <<patients, w, readers, rwait, started, req, visited, out, resp, before, acquired>>

\* main.go:77
GetRUnlock(p) ==
    /\ pc[p] = "g_runlock"
    /\ RUnlock(p)
    /\ pc' = [pc EXCEPT ![p] = "g_respond"]
    /\ UNCHANGED <<patients, started, req, patient, exists, visited, out, resp, before, acquired>>

\* main.go:79-85
GetRespond(p) ==
    /\ pc[p] = "g_respond"
    /\ resp' = [resp EXCEPT ![p] =
                  IF ~exists[p] THEN ErrorResponse(404, "Patient not found")
                  ELSE PatientResponse(200, patient[p])]
    /\ pc' = [pc EXCEPT ![p] = "done"]
    /\ UNCHANGED <<patients, w, readers, rwait, started, req, patient, exists,
                   visited, out, before, acquired>>

(***************************************************************************)
(* listAllPatients                                                         *)
(***************************************************************************)
\* a list that starts its range without taking the read lock
ListRLockSkipped(p) ==
    /\ pc[p] = "l_rlock"
    /\ pc' = [pc EXCEPT ![p] = "l_range"]
    /\ UNCHANGED <<patients, w, readers, rwait, started, req, patient, exists,
                   visited, out, resp, before, acquired>>

\* main.go:111-112
ListRLock(p) ==
    /\ pc[p] = "l_rlock"
    /\ RLock(p, "l_rblocked", "l_range")
    /\ UNCHANGED <<patients, started, req, patient, exists, visited, out, resp, before, acquired>>

ListRLocked(p) == RLockWake(p, "l_rblocked", "l_range")

\* The entry the range yields next.  The order of a range over a map is
\* unspecified; the slice is kept as the bag of its elements, in which the
\* order is not visible, so the entries are taken in one order.
RangeNext(p) == CHOOSE k \in RangeKeys \ visited[p] : TRUE

\* main.go:113-115, one iteration
ListAppend(p) ==
    /\ pc[p] = "l_range"
    /\ RangeKeys \ visited[p] # {}
    /\ \E k \in {RangeNext(p)} :
         /\ visited' = [visited EXCEPT ![p] = @ \cup {k}]
         /\ \E r \in MapRead(k) :
              out' = [out EXCEPT ![p] = IF r.ok THEN @ (+) SetToBag({r.val}) ELSE @]
    /\ UNCHANGED <<patients, w, readers, rwait, started, req, pc, patient, exists,
                   resp, before, acquired>>

\* a range that stops one entry early
ListRangeEndEarly(p) ==
    /\ pc[p] = "l_range"
    /\ Cardinality(visited[p]) + 1 >= Cardinality(DOMAIN patients)
    /\ pc' = [pc EXCEPT ![p] = "l_runlock"]
    /\ UNCHANGED <<patients, w, readers, rwait, started, req, patient, exists,
                   visited, out, resp, before, acquired>>

\* main.go:113-115, the range is exhausted
ListRangeEnd(p) ==
    /\ pc[p] = "l_range"
    /\ (DOMAIN patients) \subseteq visited[p]
    /\ pc' = [pc EXCEPT ![p] = "l_runlock"]
    /\ UNCHANGED <<patients, w, readers, rwait, started, req, patient, exists,
                   visited, out, resp, before, acquired>>

\* main.go:116
ListRUnlock(p) ==
    /\ pc[p] = "l_runlock"
    /\ RUnlock(p)
    /\ pc' = [pc EXCEPT ![p] = "l_respond"]
    /\ UNCHANGED <<patients, started, req, patient, exists, visited, out, resp, before, acquired>>

\* main.go:118-119
ListRespond(p) ==
    /\ pc[p] = "l_respond"
    /\ resp' = [resp EXCEPT ![p] = ListResponse(out[p])]
    /\ pc' = [pc EXCEPT ![p] = "done"]
    /\ UNCHANGED <<patients, w, readers, rwait, started, req, patient, exists,
                   visited, out, before, acquired>>

(***************************************************************************)
(* healthCheck                                                             *)
(***************************************************************************)
\* a health check that waits until no writer holds or waits for the lock
HealthCheckLocked(p) ==
    /\ pc[p] = "h_encode"
    /\ ~WriterPending
    /\ \E t \in Times : resp' = [resp EXCEPT ![p] = HealthResponse(t)]
    /\ pc' = [pc EXCEPT ![p] = "done"]
    /\ UNCHANGED <<patients, w, readers, rwait, started, req, patient, exists,
                   visited, out, before, acquired>>

\* main.go:122-128
HealthCheck(p) ==
    /\ pc[p] = "h_encode"
    /\ \E t \in Times : resp' = [resp EXCEPT ![p] = HealthResponse(t)]
    /\ pc' = [pc EXCEPT ![p] = "done"]
    /\ UNCHANGED <<patients, w, readers, rwait, started, req, patient, exists,
                   visited, out, before, acquired>>

Next ==
    \E p \in Procs :
        \/ \E r \in Requests : Serve(p, r)
        \/ CreateDecode(p)
        \/ CreateValidate(p)
        \/ CreateLock(p)
        \/ CreateLocked(p)
        \/ CreateStoreBegin(p)
        \/ CreateStoreEnd(p)
        \/ CreateUnlock(p)
        \/ CreateRespond(p)
        \/ GetRLock(p)
        \/ GetRLocked(p)
        \/ GetLookup(p)
        \/ GetRUnlock(p)
        \/ GetRespond(p)
        \/ ListRLock(p)
        \/ ListRLocked(p)
        \/ ListAppend(p)
        \/ ListRangeEnd(p)
        \/ ListRUnlock(p)
        \/ ListRespond(p)
        \/ HealthCheck(p)

Spec == Init /\ [][Next]_vars

\* one statement of the handler that serves request p
HandlerStep(p) ==
    \/ CreateDecode(p) \/ CreateValidate(p) \/ CreateLock(p) \/ CreateLocked(p)
    \/ CreateStoreBegin(p) \/ CreateStoreEnd(p) \/ CreateUnlock(p) \/ CreateRespond(p)
    \/ GetRLock(p) \/ GetRLocked(p) \/ GetLookup(p) \/ GetRUnlock(p) \/ GetRespond(p)
    \/ ListRLock(p) \/ ListRLocked(p) \/ ListAppend(p) \/ ListRangeEnd(p)
    \/ ListRUnlock(p) \/ ListRespond(p)
    \/ HealthCheck(p)

\* The scheduler runs every goroutine that can run: a handler that can take
\* a step is not left waiting forever.  Requests need not arrive.
FairSpec == Spec /\ \A p \in Procs : WF_vars(HandlerStep(p))

(***************************************************************************)
(* Vocabulary of the properties.                                           *)
(***************************************************************************)
Arrived == 1..started

Creates == {c \in Arrived : IsCreate(req[c])}
Gets == {g \in Arrived : req[g].method = "GET" /\ req[g].route = "/api/patients/{name}"}
Lists == {l \in Arrived : req[l].method = "GET" /\ req[l].route = "/api/patients"}

Answered(p) == pc[p] = "done"

\* field f of the record a POST body submits
Given(b, f) == IF f \in DOMAIN b.obj THEN b.obj[f] ELSE IF f = "Name" THEN <<>> ELSE ""

\* the record a POST body submits
Submitted(b) == [f \in Fields |-> Given(b, f)]

\* the body is no JSON of the expected shape, or a required field is empty
Rejectable(b) ==
    \/ b.kind # "object"
    \/ Given(b, "Name") = <<>>
    \/ Given(b, "DateOfBirth") = ""
    \/ Given(b, "Email") = ""

\* the lookup key of a record or of a path name, case-insensitively
Fold(n) == ToLower(n)

Created(c) == c \in Creates /\ Answered(c) /\ resp[c].status = 201

\* the assignment of create c to the map is complete
HasStored(c) ==
    /\ c \in Creates
    /\ ~Rejectable(req[c].body)
    /\ pc[c] \in {"c_unlock", "c_respond", "done"}

\* p and q were served at overlapping times
Concurrent(p, q) == p # q /\ p \in Arrived /\ q \in Arrived /\ p \notin before[q] /\ q \notin before[p]

(***************************************************************************)
(* C1.  Stated: after a valid create has returned 201, a later get-by-name *)
(* with the same name in any casing returns 200 with the submitted record, *)
(* all five fields unchanged.                                              *)
(***************************************************************************)
GetsAfterCreate ==
    {cg \in Creates \X Gets :
        /\ Created(cg[1])
        /\ Answered(cg[2])
        /\ cg[1] \in before[cg[2]]
        /\ Fold(req[cg[2]].name) = Fold(Given(req[cg[1]].body, "Name"))}

\* C1 as stated: every get-by-name answered after a create of the same name
\* (any casing) had returned 201 returns 200 with that create's record.
C1_AsStated ==
    \A cg \in GetsAfterCreate :
        resp[cg[2]] = PatientResponse(200, Submitted(req[cg[1]].body))

\* No other create with the same normalized name has stored its record,
\* unless it was answered before create c arrived.
Undisturbed(c) ==
    \A q \in Creates \ {c} :
        (HasStored(q) /\ Fold(Given(req[q].body, "Name")) = Fold(Given(req[c].body, "Name")))
            => q \in before[c]

\* C1 as amended: the same, provided no other create with the same
\* normalized name stores its record concurrently with or after that create.
C1_RoundTrip ==
    \A cg \in GetsAfterCreate :
        Undisturbed(cg[1]) =>
            resp[cg[2]] = PatientResponse(200, Submitted(req[cg[1]].body))

C1_Witness ==
    \E cg \in GetsAfterCreate :
        /\ Undisturbed(cg[1])
        /\ req[cg[2]].name # Given(req[cg[1]].body, "Name")
        /\ resp[cg[2]].status = 200

(***************************************************************************)
(* C2.  Creates with pairwise distinct normalized names never lose an      *)
(* update: once all of them have returned 201, the store holds every       *)
(* submitted record under its own key.                                     *)
(***************************************************************************)
DistinctNames ==
    \A c, d \in Creates :
        c # d => Fold(Given(req[c].body, "Name")) # Fold(Given(req[d].body, "Name"))

\* C2: when all creates have distinct lowercased names and all have returned
\* 201, every submitted record is in the store under its own key.
C2_NoLostUpdate ==
    (DistinctNames /\ \A c \in Creates : Created(c)) =>
        \A c \in Creates :
            /\ Fold(Given(req[c].body, "Name")) \in DOMAIN patients
            /\ patients[Fold(Given(req[c].body, "Name"))] = Submitted(req[c].body)

C2_Witness ==
    /\ DistinctNames
    /\ \A c \in Creates : Created(c)
    /\ \E c, d \in Creates : Concurrent(c, d)

(***************************************************************************)
(* C3.  Every record a get returns and every record in a list result is,   *)
(* in all five fields, a seeded record or the record submitted by one      *)
(* create whose store is complete: no reader sees a partly written record. *)
(***************************************************************************)
WholeRecords ==
    {samplePatients[i] : i \in 1..Len(samplePatients)}
    \cup {Submitted(req[c].body) : c \in {q \in Creates : HasStored(q)}}

\* C3: every record in a get response, in a list response or in the slice a
\* list is filling is a whole seeded or submitted record.
C3_NoPartialRecord ==
    /\ \A g \in Gets : (Answered(g) /\ resp[g].status = 200) => resp[g].patient \in WholeRecords
    /\ \A l \in Lists : BagToSet(out[l]) \subseteq WholeRecords
    /\ \A l \in Lists : Answered(l) => BagToSet(resp[l].list) \subseteq WholeRecords

C3_Witness ==
    \E c \in Creates, l \in Lists, g \in Gets :
        /\ Created(c) /\ Answered(l) /\ Answered(g)
        /\ Concurrent(c, l)
        /\ Submitted(req[c].body) \in BagToSet(resp[l].list)
        /\ resp[g].patient = Submitted(req[c].body)

(***************************************************************************)
(* C4.  Lock discipline: at most one handler is inside the create critical *)
(* section, and while one is, no get or list is inside its read critical   *)
(* section.  (Several readers may be inside together: C4_Witness.)         *)
(***************************************************************************)
WritersInside == {p \in Procs : pc[p] \in {"c_store", "c_storing", "c_unlock"}}
ReadersInside == {p \in Procs : pc[p] \in {"g_lookup", "g_runlock", "l_range", "l_runlock"}}

\* C4: at most one writer is inside, and no reader is inside with it.
C4_LockDiscipline ==
    /\ Cardinality(WritersInside) <= 1
    /\ WritersInside # {} => ReadersInside = {}

C4_Witness == Cardinality(ReadersInside) >= 2

(***************************************************************************)
(* C5.  A create whose name equals, case-insensitively, the name of a      *)
(* stored record overwrites that record: after the store step the map      *)
(* holds the new record under that key and has as many records as before.  *)
(***************************************************************************)
\* C5: the store step of a create whose name matches a stored record's name
\* case-insensitively replaces that record and keeps the number of records.
C5_Overwrite ==
    [][\A p \in Procs :
          (pc[p] = "c_storing" /\ pc'[p] = "c_unlock") =>
              \A k \in DOMAIN patients :
                  Fold(patients[k].Name) = Fold(Given(req[p].body, "Name")) =>
                      /\ k \in DOMAIN patients'
                      /\ patients'[k] = Submitted(req[p].body)
                      /\ Cardinality(DOMAIN patients') = Cardinality(DOMAIN patients)]_vars

C5_Witness ==
    \E c \in Creates, i \in 1..Len(samplePatients) :
        /\ Created(c)
        /\ Fold(samplePatients[i].Name) = Fold(Given(req[c].body, "Name"))
        /\ patients[Fold(samplePatients[i].Name)] = Submitted(req[c].body)
        /\ Cardinality(DOMAIN patients) = Len(samplePatients)

(***************************************************************************)
(* C6.  A create is answered 400 exactly when its body is no JSON of the   *)
(* expected shape or name, dateOfBirth or email is empty; every other      *)
(* create (empty gender or illness included) is answered 201 with the      *)
(* submitted record as the body.                                           *)
(***************************************************************************)
\* C6: an answered create has 400 if its body is rejectable, and otherwise
\* 201 with the submitted record.
C6_CreateStatus ==
    \A c \in Creates :
        Answered(c) =>
            IF Rejectable(req[c].body)
            THEN resp[c].status = 400 /\ resp[c].kind = "text"
            ELSE resp[c] = PatientResponse(201, Submitted(req[c].body))

C6_Witness ==
    \E c, d \in Creates :
        /\ Created(c) /\ Given(req[c].body, "Illness") = ""
        /\ Answered(d) /\ resp[d].status = 400 /\ req[d].body.kind = "object"

(***************************************************************************)
(* C7.  A create that is rejected (malformed body, or empty name,          *)
(* dateOfBirth or email) is answered 400, and no step of its handler       *)
(* changes the store or takes the write lock.                              *)
(***************************************************************************)
\* C7: every step of a create with a rejectable body leaves the store and
\* the write lock alone, and its answer is 400.
C7_RejectedCreate ==
    [][\A p \in Procs :
          (IsCreate(req'[p]) /\ Rejectable(req'[p].body) /\ pc'[p] # pc[p]) =>
              /\ patients' = patients
              /\ w' = w
              /\ w' # p
              /\ pc'[p] = "done" => resp'[p].status = 400]_vars

C7_Witness ==
    \E p \in Creates, l \in Lists :
        /\ Given(req[p].body, "Email") = "" /\ Given(req[p].body, "Name") # <<>>
        /\ Answered(p) /\ resp[p].status = 400
        /\ Answered(l) /\ p \in before[l]
        /\ patients = InitPatients

(***************************************************************************)
(* C8.  A get-by-name answers 404 "Patient not found" exactly when the     *)
(* lowercased path name is no key of the store at the moment of the        *)
(* lookup, and 200 with the record stored under that key otherwise.        *)
(***************************************************************************)
\* C8: the lookup finds exactly the entry under the lowercased path name,
\* and the answer is 404 "Patient not found" or 200 with that entry.
C8_GetByName ==
    [][\A g \in Procs :
          /\ (pc[g] = "g_lookup" /\ pc'[g] # "g_lookup") =>
                /\ exists'[g] = (Fold(req[g].name) \in DOMAIN patients)
                /\ exists'[g] => patient'[g] = patients[Fold(req[g].name)]
          /\ pc[g] \in {"g_runlock", "g_respond"} =>
                /\ exists'[g] = exists[g]
                /\ patient'[g] = patient[g]
          /\ (pc[g] = "g_respond" /\ pc'[g] = "done") =>
                resp'[g] = IF exists[g] THEN PatientResponse(200, patient[g])
                           ELSE ErrorResponse(404, "Patient not found")]_vars

C8_Witness ==
    \E g, h \in Gets :
        /\ Answered(g) /\ req[g].name = EmilyOnly
        /\ resp[g] = ErrorResponse(404, "Patient not found")
        /\ Answered(h) /\ resp[h].status = 200
        /\ Fold(resp[h].patient.Name) = Fold(req[h].name)

(***************************************************************************)
(* C9.  A list answered before any create has arrived returns exactly the  *)
(* four seeded records (Nobody Knows, Johnson Fake, Michael Chen, Emily    *)
(* Lor), each once and nothing else.                                       *)
(***************************************************************************)
\* list l was answered before any create arrived
BeforeAnyCreate(l) == \A c \in Creates : l \in before[c]

SeededNames ==
    { <<"N","o","b","o","d","y"," ","K","n","o","w","s">>,
      <<"J","o","h","n","s","o","n"," ","F","a","k","e">>,
      <<"M","i","c","h","a","e","l"," ","C","h","e","n">>,
      <<"E","m","i","l","y"," ","L","o","r">> }

\* C9: a list answered while no create has arrived returns the four seeded
\* records, each once, and nothing else.
C9_ListAtStartup ==
    \A l \in Lists :
        (Answered(l) /\ BeforeAnyCreate(l)) =>
            /\ resp[l].status = 200 /\ resp[l].kind = "list"
            /\ BagCardinality(resp[l].list) = Cardinality(SeededNames)
            /\ {r.Name : r \in BagToSet(resp[l].list)} = SeededNames
            /\ \A i \in 1..Len(samplePatients) : CopiesIn(samplePatients[i], resp[l].list) = 1

C9_Witness ==
    \E l \in Lists : Answered(l) /\ BeforeAnyCreate(l) /\ Creates # {}

(***************************************************************************)
(* C10.  Key invariant: every key of the store is the lowercase form of    *)
(* the name of the record stored under it, so no two stored records have   *)
(* names that are equal case-insensitively.                                *)
(***************************************************************************)
\* C10: every key is the lowercase form of its record's name, and no two
\* stored names are equal case-insensitively.
C10_KeyInvariant ==
    /\ \A k \in DOMAIN patients : k = Fold(patients[k].Name)
    /\ \A k1, k2 \in DOMAIN patients :
          k1 # k2 => Fold(patients[k1].Name) # Fold(patients[k2].Name)

C10_Witness ==
    \E c \in Creates :
        /\ Created(c)
        /\ Given(req[c].body, "Name") # Fold(Given(req[c].body, "Name"))
        /\ Fold(Given(req[c].body, "Name")) \in DOMAIN patients
        /\ patients[Fold(Given(req[c].body, "Name"))] = Submitted(req[c].body)
        /\ Cardinality(DOMAIN patients) > Len(samplePatients)

(***************************************************************************)
(* C11.  Under fair scheduling of the handlers every request that has      *)
(* arrived is eventually answered, whatever list, get, create and health   *)
(* requests run beside it; and a request that has been answered holds no   *)
(* lock and waits for none.                                                *)
(***************************************************************************)
\* request p holds the lock or has a place in it
InLock(p) == w = p \/ p \in readers \/ p \in rwait

\* C11: every arrived request is eventually answered, and an answered
\* request has released the lock.
C11_Completes ==
    /\ \A p \in Procs : (pc[p] # "idle") ~> (pc[p] = "done")
    /\ [](\A p \in Procs : pc[p] \in {"idle", "done"} => ~InLock(p))

C11_Witness ==
    \E c \in Creates, g \in Gets, l \in Lists :
        /\ Created(c) /\ Answered(g) /\ Answered(l)
        /\ Concurrent(c, g) /\ Concurrent(c, l) /\ Concurrent(g, l)
        /\ acquired = <<c>>
        /\ w = 0 /\ readers = {} /\ rwait = {}

(***************************************************************************)
(* C12.  Only create changes the store: a step in which the map changes is *)
(* the map assignment of a createPatient, and no step of a list, a         *)
(* get-by-name, a health check or an OPTIONS request changes the keys or   *)
(* any stored record.                                                      *)
(***************************************************************************)
\* this step is a step of request p (its arrival included)
Moves(p) ==
    \/ pc'[p] # pc[p]
    \/ visited'[p] # visited[p]
    \/ out'[p] # out[p]

\* C12: a step that changes the map is the map assignment of a create, and
\* every step of a request that is no create leaves the map as it is.
C12_OnlyCreateMutates ==
    [][/\ patients' # patients =>
             \E c \in Procs :
                 IsCreate(req[c]) /\ pc[c] = "c_storing" /\ pc'[c] = "c_unlock"
       /\ \A p \in Procs :
             (Moves(p) /\ ~IsCreate(req'[p])) =>
                 /\ DOMAIN patients' = DOMAIN patients
                 /\ \A k \in DOMAIN patients : patients'[k] = patients[k]]_vars

C12_Witness ==
    \E c \in Creates, g \in Gets, l \in Lists :
        /\ Created(c) /\ Answered(l)
        /\ Answered(g) /\ resp[g].status = 404
        /\ Concurrent(c, g) /\ Concurrent(c, l)
        /\ patients = MapPut(InitPatients, Fold(Given(req[c].body, "Name")),
                             Submitted(req[c].body))

(***************************************************************************)
(* C13.  Nothing is deleted.  No step removes a key; a step adds at most   *)
(* one key, and only the store step of a create adds one; the four seeded  *)
(* keys are always present; and the record under a key changes only to the *)
(* whole record of a create whose lowercased name is that key.             *)
(***************************************************************************)
SeededKeys == {Fold(n) : n \in SeededNames}

\* C13: the key set only grows, by at most one key per stored create, the
\* seeded keys stay, and a record changes only by a create's full overwrite.
C13_NoDeletion ==
    /\ [](/\ SeededKeys \subseteq DOMAIN patients
          /\ Cardinality(DOMAIN patients) <=
                 Cardinality(SeededKeys) + Cardinality({c \in Creates : HasStored(c)}))
    /\ [][/\ DOMAIN patients \subseteq DOMAIN patients'
           /\ Cardinality(DOMAIN patients') <= Cardinality(DOMAIN patients) + 1
           /\ \A k \in DOMAIN patients :
                 patients'[k] # patients[k] =>
                     \E c \in Procs :
                         /\ IsCreate(req[c]) /\ pc[c] = "c_storing" /\ pc'[c] = "c_unlock"
                         /\ Fold(Given(req[c].body, "Name")) = k
                         /\ patients'[k] = Submitted(req[c].body)]_vars

C13_Witness ==
    \E c, d \in Creates :
        /\ Created(c) /\ Created(d) /\ c \in before[d]
        /\ Fold(Given(req[c].body, "Name")) = Fold(Given(req[d].body, "Name"))
        /\ Submitted(req[c].body) # Submitted(req[d].body)
        /\ patients[Fold(Given(req[d].body, "Name"))] = Submitted(req[d].body)
        /\ Cardinality(DOMAIN patients) = Cardinality(SeededKeys) + 1
        /\ SeededKeys \subseteq DOMAIN patients

(***************************************************************************)
(* C14.  A list returns a snapshot.  While it copies, its slice holds one  *)
(* record for each key it has passed, as the store has it; when the range  *)
(* ends, still under the read lock, the slice holds exactly one record per *)
(* key of the store of that moment; after that the slice no longer changes *)
(* and is what the response carries, whatever is created meanwhile.        *)
(***************************************************************************)
\* one copy of the record under each of the keys ks of the store
RecordsUnder(ks) ==
    [v \in {patients[k] : k \in ks} |-> Cardinality({k \in ks : patients[k] = v})]

\* C14: at the end of the range the slice is the store of that instant, one
\* record per key, and later creates do not change what the list returns.
C14_ListSnapshot ==
    /\ [](\A l \in Procs :
            /\ pc[l] = "l_range" =>
                  /\ visited[l] \subseteq DOMAIN patients
                  /\ out[l] = RecordsUnder(visited[l])
            /\ pc[l] = "l_runlock" => out[l] = RecordsUnder(DOMAIN patients))
    /\ [][\A l \in Procs :
             /\ pc[l] \in {"l_runlock", "l_respond"} => out'[l] = out[l]
             /\ (pc[l] = "l_respond" /\ pc'[l] = "done") =>
                   resp'[l] = ListResponse(out[l])]_vars

C14_Witness ==
    \E c \in Creates, l \in Lists :
        /\ Created(c) /\ Answered(l) /\ Concurrent(c, l)
        /\ l < c
        /\ BagCardinality(resp[l].list) = Cardinality(SeededKeys)
        /\ Submitted(req[c].body) \notin BagToSet(resp[l].list)
        /\ patients[Fold(Given(req[c].body, "Name"))] = Submitted(req[c].body)
        /\ Cardinality(DOMAIN patients) = Cardinality(SeededKeys) + 1

(***************************************************************************)
(* C15.  The health check does not depend on the store.  It never holds or *)
(* waits for the lock; whatever the store and the lock are, it can answer  *)
(* at once, with any time of the clock; and its answer is 200 with the     *)
(* status "healthy" and a time.                                            *)
(***************************************************************************)
Healths == {h \in Arrived : req[h].method = "GET" /\ req[h].route = "/health"}

\* C15: a health check is never in the lock, can always answer (also while a
\* create holds the write lock), and answers 200 "healthy" with a time.
C15_HealthIndependent ==
    \A h \in Healths :
        /\ ~InLock(h)
        /\ ~Answered(h) =>
              \A t \in Times : ENABLED (HealthCheck(h) /\ resp'[h] = HealthResponse(t))
        /\ Answered(h) =>
              /\ resp[h].status = 200 /\ resp[h].kind = "health"
              /\ resp[h].text \in Times
              /\ resp[h].patient = ZeroPatient /\ resp[h].list = EmptyBag

C15_Witness ==
    \E h \in Healths, c \in Creates, l \in Lists :
        /\ Answered(h) /\ resp[h].status = 200
        /\ c \notin before[h]
        /\ pc[c] \in {"c_store", "c_storing", "c_unlock"}
        /\ pc[l] = "l_rblocked"

(***************************************************************************)
(* C16.  The lock is held only inside the critical sections.  A handler    *)
(* that is decoding the body, validating the fields or writing its         *)
(* response, or that has not started or has finished, neither holds the    *)
(* lock nor waits for it; so while every unanswered request is at such a   *)
(* statement the lock is free.                                             *)
(***************************************************************************)
\* statements at which a handler reads the request or writes the response
OutsideLock ==
    {"idle", "c_decode", "c_validate", "c_respond", "g_respond", "l_respond",
     "h_encode", "done"}

\* C16: a handler outside its critical section is not in the lock; the write
\* lock is held only from Lock to Unlock and the read lock only from RLock to
\* RUnlock.
C16_LockOnlyInside ==
    /\ \A p \in Procs : pc[p] \in OutsideLock => ~InLock(p)
    /\ \A p \in Procs : w = p => pc[p] \in {"c_lockwait", "c_store", "c_storing", "c_unlock"}
    /\ \A p \in readers :
          pc[p] \in {"g_rblocked", "g_lookup", "g_runlock", "l_rblocked", "l_range", "l_runlock"}
    /\ \A p \in rwait : pc[p] \in {"g_rblocked", "l_rblocked"}
    /\ (\A p \in Procs : pc[p] \in OutsideLock) => (w = 0 /\ readers = {} /\ rwait = {})

C16_Witness ==
    \E c, d \in Creates, l \in Lists :
        /\ pc[c] = "c_respond"
        /\ pc[d] = "c_decode"
        /\ pc[l] = "l_range" /\ l \in readers /\ visited[l] # {}

(***************************************************************************)
(* C17.  Last write wins.  When two creates whose names are equal          *)
(* case-insensitively were served at overlapping times and both have       *)
(* returned 201, the store holds under their key the whole record of the   *)
(* one that acquired the write lock last (of all the creates of that key   *)
(* that have stored), and each of the two was answered with its own        *)
(* record, stored or not.                                                  *)
(***************************************************************************)
\* the place of request p in the order in which the write lock was acquired
LockPlace(p) == CHOOSE i \in 1..Len(acquired) : acquired[i] = p

\* d is, of the creates with the key of d that have stored, the last to
\* have acquired the write lock
LastWriter(d) ==
    /\ HasStored(d)
    /\ \A e \in Creates :
          (HasStored(e) /\ Fold(Given(req[e].body, "Name")) = Fold(Given(req[d].body, "Name")))
              => LockPlace(e) <= LockPlace(d)

ConcurrentSameName ==
    {cd \in Creates \X Creates :
        /\ Concurrent(cd[1], cd[2])
        /\ Created(cd[1]) /\ Created(cd[2])
        /\ Fold(Given(req[cd[1]].body, "Name")) = Fold(Given(req[cd[2]].body, "Name"))}

\* C17: of two concurrent creates of one key that both returned 201, the
\* record of the last to acquire the write lock is the one stored, in full,
\* and both were answered 201 with their own submitted records.
C17_LastWriteWins ==
    \A cd \in ConcurrentSameName :
        /\ LastWriter(cd[2]) =>
              patients[Fold(Given(req[cd[2]].body, "Name"))] = Submitted(req[cd[2]].body)
        /\ resp[cd[1]] = PatientResponse(201, Submitted(req[cd[1]].body))
        /\ resp[cd[2]] = PatientResponse(201, Submitted(req[cd[2]].body))

C17_Witness ==
    \E cd \in ConcurrentSameName :
        /\ cd[1] < cd[2]
        /\ acquired = <<cd[2], cd[1]>>
        /\ LastWriter(cd[1])
        /\ patients[Fold(Given(req[cd[1]].body, "Name"))] = Submitted(req[cd[1]].body)
        /\ resp[cd[2]].patient # patients[Fold(Given(req[cd[2]].body, "Name"))]

(***************************************************************************)
(* C18.  An OPTIONS request, to whatever path, is answered by the          *)
(* middleware: 200 with an empty body at its arrival, with no handler run. *)
(* Its arrival leaves the store and the lock as they are, and it never     *)
(* holds the lock, waits for it or has read anything of the store.         *)
(***************************************************************************)
Preflights == {o \in Arrived : req[o].method = "OPTIONS"}

\* C18: the arrival of an OPTIONS request answers it 200 with an empty body
\* and changes neither store nor lock; it runs no statement of a handler.
C18_Preflight ==
    /\ [](\A o \in Preflights :
            /\ pc[o] = "done"
            /\ resp[o].status = 200 /\ resp[o].kind = "empty" /\ resp[o].text = ""
            /\ resp[o].patient = ZeroPatient /\ resp[o].list = EmptyBag
            /\ ~InLock(o)
            /\ \A i \in 1..Len(acquired) : acquired[i] # o
            /\ patient[o] = ZeroPatient /\ ~exists[o]
            /\ visited[o] = {} /\ out[o] = EmptyBag)
    /\ [][\A o \in Procs :
             (pc[o] = "idle" /\ pc'[o] # "idle" /\ req'[o].method = "OPTIONS") =>
                 /\ patients' = patients
                 /\ w' = w /\ readers' = readers /\ rwait' = rwait]_vars

C18_Witness ==
    \E o1, o2 \in Preflights, l \in Lists :
        /\ req[o1].route = "/api/patients"
        /\ req[o2].route = "/nowhere"
        /\ l < o1 /\ l < o2
        /\ pc[l] = "l_range" /\ visited[l] # {}
        /\ resp[o1] = EmptyResponse /\ resp[o2] = EmptyResponse

(***************************************************************************)
(* C19.  Every record in the store has a name, a date of birth and an      *)
(* email that are not empty, and the empty string is no key of the store.  *)
(***************************************************************************)
\* C19: every stored record has non-empty name, dateOfBirth and email, and
\* the empty string is not a key.
C19_StoredRecordsValid ==
    /\ \A k \in DOMAIN patients :
          /\ patients[k].Name # <<>>
          /\ patients[k].DateOfBirth # ""
          /\ patients[k].Email # ""
    /\ <<>> \notin DOMAIN patients

C19_Witness ==
    \E c, d \in Creates :
        /\ Created(c)
        /\ patients[Fold(Given(req[c].body, "Name"))] = Submitted(req[c].body)
        /\ Given(req[c].body, "Illness") = ""
        /\ Answered(d) /\ resp[d].status = 400
        /\ Given(req[d].body, "Email") = ""
        /\ Given(req[d].body, "Name") = Given(req[c].body, "Name")
        /\ c \in before[d]

(***************************************************************************)
(* C20.  Once a create of a name has returned 201, a get-by-name that      *)
(* arrives afterwards with that name in any casing is never answered 404:  *)
(* it returns 200 with a record whose name equals the requested name       *)
(* case-insensitively, whatever other creates run in between or beside it. *)
(***************************************************************************)
\* C20: every get answered after having arrived later than the 201 of a
\* create of its name returns 200 with a record of that name, in some casing.
C20_NeverNotFound ==
    \A cg \in GetsAfterCreate :
        /\ resp[cg[2]].status = 200
        /\ resp[cg[2]].kind = "patient"
        /\ Fold(resp[cg[2]].patient.Name) = Fold(req[cg[2]].name)

C20_Witness ==
    \E cg \in GetsAfterCreate, d \in Creates :
        /\ d # cg[1]
        /\ Created(d) /\ Concurrent(d, cg[2])
        /\ req[cg[2]].name # Given(req[cg[1]].body, "Name")
        /\ resp[cg[2]].status = 200
        /\ resp[cg[2]].patient = Submitted(req[d].body)
        /\ resp[cg[2]].patient # Submitted(req[cg[1]].body)

====
